---- MODULE Spec2Model ----
(***************************************************************************)
(* Model of serde-properties: a line-oriented `key=value` codec.           *)
(*   src/src/de.rs  - Deserializer (parse_line, typed and generic value    *)
(*                    decoding, MapAccess, SeqAccess)                      *)
(*   src/src/ser.rs - Serializer (escaping, sequences, struct fields, map   *)
(*                    entries, bare values)                                *)
(* Text is modelled as a sequence of one-character strings.  All the       *)
(* characters used are ASCII, so a byte offset equals a character count.   *)
(***************************************************************************)
EXTENDS Integers, Sequences, FiniteSets

VARIABLES
    line,       \* SpecSplit: the line handed to parse_line
    splitRes,   \* SpecSplit: what parse_line returned
    shape,      \* what to_writer is handed: "struct", "map" or "value"
    record,     \* the fields of the struct, the entries of the map, or the
                \* bare value held as the one field of a nameless record
    output,     \* Serializer.output, the bytes written so far
    encIdx,     \* number of fields (entries, values) already serialized
    keyDone,    \* map: serialize_key has run for the entry encIdx + 1
    input,          \* Deserializer.input: the bytes not read yet
    current_key,    \* Deserializer.current_key (Option<String>)
    current_value,  \* Deserializer.current_value (Option<String>)
    pc,             \* where the driver of the decoder stands
    mapDepth,       \* number of visit_map calls reached
    seqDe,          \* the SeqDeserializer of the list being decoded
    lastRes,        \* the last deserialize call: its target, buffers, result
    curField,       \* the field name the typed driver read last
    decoded         \* the fields the typed driver has decoded so far

splitVars == <<line, splitRes>>
encVars == <<shape, record, output, encIdx, keyDone>>
deVars == <<input, current_key, current_value, pc, mapDepth, seqDe, lastRes>>
vars == <<line, splitRes, shape, record, output, encIdx, keyDone, input,
          current_key, current_value, pc, mapDepth, seqDe, lastRes, curField,
          decoded>>
driverVars == <<curField, decoded>>

(***************************************************************************)
(* Bounds                                                                  *)
(***************************************************************************)
MaxLineLen == 4
MaxStrLen == 2
MaxListLen == 2
MaxLines == 2
MaxDepth == 2

(***************************************************************************)
(* Configuration (src/src/lib.rs)                                          *)
(***************************************************************************)
DEFAULT_ESCAPE == "\\"
DEFAULT_SEPARATOR == "="

(***************************************************************************)
(* Text helpers                                                            *)
(***************************************************************************)
\* Option<T>: None is the empty sequence, Some(x) the one-element sequence.
None == <<>>
Some(x) == <<x>>
IsSome(o) == Len(o) = 1
IsNone(o) == Len(o) = 0
Unwrap(o) == o[1]

\* char::is_whitespace, as str::trim uses it, on the characters modelled.
IsWhitespace(c) == c \in {" ", "\n", "\t", "\r"}

RECURSIVE TrimStart(_)
TrimStart(s) ==
    IF Len(s) > 0 /\ IsWhitespace(s[1]) THEN TrimStart(Tail(s)) ELSE s

RECURSIVE TrimEnd(_)
TrimEnd(s) ==
    IF Len(s) > 0 /\ IsWhitespace(s[Len(s)])
    THEN TrimEnd(SubSeq(s, 1, Len(s) - 1))
    ELSE s

\* str::trim
Trim(s) == TrimEnd(TrimStart(s))

\* char::len_utf8 on the (ASCII) characters modelled.
LenUtf8(c) == 1

\* All texts over the alphabet A of length at most n.
RECURSIVE TextsUpTo(_, _)
TextsUpTo(A, n) ==
    IF n = 0 THEN {<<>>}
    ELSE LET shorter == TextsUpTo(A, n - 1)
         IN  shorter \cup {Append(s, c) : s \in shorter, c \in A}

(***************************************************************************)
(* Deserializer::parse_line (src/src/de.rs:39-74)                          *)
(***************************************************************************)
SplitOk(k, v) == [tag |-> "Ok", key |-> k, value |-> v]
SplitErr(e) == [tag |-> e, key |-> <<>>, value |-> <<>>]
SplitNone == [tag |-> "none", key |-> <<>>, value |-> <<>>]

\* The `for c in l.chars()` loop from character i on, with the locals `key`
\* (Option<usize>) and `escaped`; the result is the locals <<key, value>> when
\* the loop is left, or the early return Err(NoKey).
RECURSIVE ScanLine(_, _, _, _)
ScanLine(l, i, key, escaped) ==
    IF i > Len(l) THEN [ret |-> "end", key |-> key, value |-> None]
    ELSE
      LET c == l[i] IN
      IF ~escaped /\ c = DEFAULT_ESCAPE
      THEN \* escaped = true; then the trailing `if escaped { escaped = false }`
           LET e1 == TRUE
               e2 == IF e1 THEN FALSE ELSE e1
           IN  ScanLine(l, i + 1, key, e2)
      ELSE IF ~escaped /\ c = DEFAULT_SEPARATOR
           THEN IF IsNone(key)
                THEN [ret |-> "NoKey", key |-> key, value |-> None]
                ELSE [ret |-> "end", key |-> key,
                      value |-> Some(Unwrap(key) + 1)]
           ELSE LET k2 == IF IsSome(key)
                          THEN Some(Unwrap(key) + LenUtf8(c))
                          ELSE Some(LenUtf8(c))
                    e2 == IF escaped THEN FALSE ELSE escaped
                IN  ScanLine(l, i + 1, k2, e2)

\* l.get_unchecked(..n) and l.get_unchecked(n..) for an in-bounds offset n.
SliceTo(l, n) == SubSeq(l, 1, n)
SliceFrom(l, n) == SubSeq(l, n + 1, Len(l))

parse_line(l) ==
    LET r == ScanLine(l, 1, None, FALSE) IN
    IF r.ret = "NoKey" THEN SplitErr("NoKey")
    ELSE IF IsNone(r.value) THEN SplitErr("NoValue")
    ELSE SplitOk(Trim(SliceTo(l, Unwrap(r.key))),
                 Trim(SliceFrom(l, Unwrap(r.value))))


(***************************************************************************)
(* Values.  A value is a record [kind, n, s, elems]:                       *)
(*   kind "u8"/"u32": the integer n        kind "bool": n = 1 is true      *)
(*   kind "str": the text s                kind "unit": () or None         *)
(*   kind "seq_u8"/"seq_str": a Vec<u8> / Vec<String> with elements elems  *)
(*   kind "tuple": a tuple of scalar values elems                          *)
(*   kind "u64"/"i64": (generic decoding) the canonical numeral s          *)
(***************************************************************************)
Val(kind, n, s, elems) == [kind |-> kind, n |-> n, s |-> s, elems |-> elems]
IntVal(kind, n) == Val(kind, n, <<>>, <<>>)
BoolVal(b) == Val("bool", IF b THEN 1 ELSE 0, <<>>, <<>>)
StrVal(s) == Val("str", 0, s, <<>>)
UnitVal == Val("unit", 0, <<>>, <<>>)
ListVal(kind, elems) == Val(kind, 0, <<>>, elems)
NumeralVal(kind, s) == Val(kind, 0, s, <<>>)
Field(name, value) == [name |-> name, value |-> value]

DigitChars == <<"0", "1", "2", "3", "4", "5", "6", "7", "8", "9">>
IsDigit(c) == \E d \in DOMAIN DigitChars : DigitChars[d] = c
DigitValue(c) == (CHOOSE d \in DOMAIN DigitChars : DigitChars[d] = c) - 1

(***************************************************************************)
(* Serializer (src/src/ser.rs)                                             *)
(***************************************************************************)
\* v.to_string() of an unsigned integer: its decimal numeral.
RECURSIVE to_string(_)
to_string(n) ==
    IF n < 10 THEN <<DigitChars[n + 1]>>
    ELSE to_string(n \div 10) \o <<DigitChars[(n % 10) + 1]>>

\* bool::to_string
bool_to_string(n) ==
    IF n = 1 THEN <<"t", "r", "u", "e">> ELSE <<"f", "a", "l", "s", "e">>

\* str::replace(c, to): every occurrence of the character c becomes `to`.
RECURSIVE Replace(_, _, _)
Replace(s, c, to) ==
    IF Len(s) = 0 THEN <<>>
    ELSE (IF Head(s) = c THEN to ELSE <<Head(s)>>) \o Replace(Tail(s), c, to)

\* serialize_str with the two replacements in the other order.
serialize_str_separator_first(v) ==
    LET s1 == Replace(v, DEFAULT_SEPARATOR, <<DEFAULT_ESCAPE, DEFAULT_SEPARATOR>>)
    IN  Replace(s1, DEFAULT_ESCAPE, <<DEFAULT_ESCAPE, DEFAULT_ESCAPE>>)

\* serialize_str: the text handed to write_value.
serialize_str(v) ==
    LET s1 == Replace(v, DEFAULT_ESCAPE, <<DEFAULT_ESCAPE, DEFAULT_ESCAPE>>)
    IN  Replace(s1, DEFAULT_SEPARATOR, <<DEFAULT_ESCAPE, DEFAULT_SEPARATOR>>)

\* serialize_u8 / serialize_u32 / serialize_bool / serialize_str /
\* serialize_unit: what a scalar appends to the output.
SerializeScalar(v) ==
    CASE v.kind \in {"u8", "u32"} -> to_string(v.n)
      [] v.kind = "bool" -> bool_to_string(v.n)
      [] v.kind = "str" -> serialize_str(v.s)
      [] OTHER -> <<>>

\* SerializeSeq::serialize_element on the state [out, first] of the sink and
\* the SeqSerializer: `first` is read and left as it is.
SeqSerializeElement(st, v) ==
    [out |-> (IF ~st.first THEN st.out \o <<",">> ELSE st.out)
             \o SerializeScalar(v),
     first |-> st.first]

\* SerializeTuple::serialize_element: `first` is cleared by the first element.
TupleSerializeElement(st, v) ==
    [out |-> (IF ~st.first THEN st.out \o <<",">> ELSE st.out)
             \o SerializeScalar(v),
     first |-> IF ~st.first THEN st.first ELSE FALSE]

\* serialize_seq / serialize_tuple: SeqSerializer { first: true }, then one
\* serialize_element per element in order, then end().
RECURSIVE SerializeElements(_, _, _, _)
SerializeElements(kind, elems, i, st) ==
    IF i > Len(elems) THEN st.out
    ELSE SerializeElements(kind, elems, i + 1,
            IF kind = "tuple" THEN TupleSerializeElement(st, elems[i])
            ELSE SeqSerializeElement(st, elems[i]))

\* value.serialize(serializer): what the value appends to the output.
SerializeValue(v) ==
    IF v.kind \in {"seq_u8", "seq_str", "tuple"}
    THEN SerializeElements(v.kind, v.elems, 1, [out |-> <<>>, first |-> TRUE])
    ELSE SerializeScalar(v)

\* serialize_field that terminates no line.
serialize_field_no_newline(out, key, value) ==
    out \o key \o <<DEFAULT_SEPARATOR>> \o SerializeValue(value)

\* SerializeStruct::serialize_field: the output after the field is written.
serialize_field(out, key, value) ==
    out \o key \o <<DEFAULT_SEPARATOR>> \o SerializeValue(value) \o <<"\n">>

\* SerializeMap::serialize_key: key.serialize(self) of a String key, which is
\* serialize_str, then the separator.
serialize_key(out, key) ==
    out \o SerializeValue(StrVal(key)) \o <<DEFAULT_SEPARATOR>>

\* SerializeMap::serialize_value: value.serialize(self), then "\n".
serialize_value(out, value) ==
    out \o SerializeValue(value) \o <<"\n">>

\* to_writer: value.serialize(&mut serializer) on a fresh sink, for a value
\* that is no struct and no map.
to_writer(out, value) ==
    out \o SerializeValue(value)

(***************************************************************************)
(* Deserializer: value parsing (src/src/de.rs:76-218)                      *)
(***************************************************************************)
\* Result of a deserialize_* call: tag "Ok" with the value visited, tag
\* "EnterMap" when visit_map is reached, or the error raised: "NoKey",
\* "NoValue", "InvalidValue" (ParseError), "NoKeyOrValue" and "Nested" (the
\* two Error::Custom messages), "Panic" (unimplemented!()).
Res(tag, val) == [tag |-> tag, val |-> val]
Err(tag) == Res(tag, UnitVal)

RECURSIVE AllDigits(_)
AllDigits(s) == Len(s) = 0 \/ (IsDigit(Head(s)) /\ AllDigits(Tail(s)))

\* The numeral without its leading zeros ("0" for zero).
RECURSIVE StripZeros(_)
StripZeros(s) ==
    IF Len(s) > 1 /\ Head(s) = "0" THEN StripZeros(Tail(s)) ELSE s

\* a <= b for numerals without leading zeros.
RECURSIVE NumeralLeq(_, _)
NumeralLeq(a, b) ==
    IF Len(a) # Len(b) THEN Len(a) < Len(b)
    ELSE IF Len(a) = 0 THEN TRUE
    ELSE IF Head(a) # Head(b) THEN DigitValue(Head(a)) < DigitValue(Head(b))
    ELSE NumeralLeq(Tail(a), Tail(b))

RECURSIVE NumeralToInt(_, _)
NumeralToInt(s, acc) ==
    IF Len(s) = 0 THEN acc
    ELSE NumeralToInt(Tail(s), acc * 10 + DigitValue(Head(s)))

U8_MAX == <<"2", "5", "5">>
U32_MAX == <<"4", "2", "9", "4", "9", "6", "7", "2", "9", "5">>
U64_MAX == <<"1", "8", "4", "4", "6", "7", "4", "4", "0", "7",
             "3", "7", "0", "9", "5", "5", "1", "6", "1", "5">>
I64_MAX == <<"9", "2", "2", "3", "3", "7", "2", "0", "3", "6",
             "8", "5", "4", "7", "7", "5", "8", "0", "7">>
I64_MIN_MAGNITUDE == <<"9", "2", "2", "3", "3", "7", "2", "0", "3", "6",
                       "8", "5", "4", "7", "7", "5", "8", "0", "8">>

\* str::parse::<uN>() (core's from_str_radix, unsigned): an optional "+", then
\* one or more decimal digits, the checked accumulation overflowing exactly
\* when the number exceeds max.  Some(canonical numeral) or None.
ParseUnsigned(s, max) ==
    IF Len(s) = 0 THEN None
    ELSE IF Len(s) = 1 /\ s[1] \in {"+", "-"} THEN None
    ELSE LET digits == IF s[1] = "+" THEN Tail(s) ELSE s
             num == StripZeros(digits)
         IN  IF AllDigits(digits) /\ NumeralLeq(num, max)
             THEN Some(num) ELSE None

\* str::parse::<i64>() (from_str_radix, signed): an optional "+" or "-", then
\* digits, within [-minMag, max].  Some(canonical numeral) or None.
ParseSigned(s, max, minMag) ==
    IF Len(s) = 0 THEN None
    ELSE IF Len(s) = 1 /\ s[1] \in {"+", "-"} THEN None
    ELSE LET negative == s[1] = "-"
             digits == IF s[1] \in {"+", "-"} THEN Tail(s) ELSE s
             num == StripZeros(digits)
         IN  IF ~AllDigits(digits) THEN None
             ELSE IF negative
                  THEN IF NumeralLeq(num, minMag)
                       THEN Some(IF num = <<"0">> THEN num ELSE <<"-">> \o num)
                       ELSE None
                  ELSE IF NumeralLeq(num, max) THEN Some(num) ELSE None

\* str::parse::<bool>(): exactly "true" or "false".
ParseBool(s) ==
    IF s = <<"t", "r", "u", "e">> THEN Some(TRUE)
    ELSE IF s = <<"f", "a", "l", "s", "e">> THEN Some(FALSE)
    ELSE None

\* Deserializer::deserialize::<T>(v) with Deserializer::parse::<T>, for the
\* target types bool, u8 and u32; v is current_value.
deserialize(ty, v) ==
    IF IsNone(v) THEN Err("NoValue")
    ELSE LET p == CASE ty = "bool" -> ParseBool(Unwrap(v))
                    [] ty = "u8" -> ParseUnsigned(Unwrap(v), U8_MAX)
                    [] OTHER -> ParseUnsigned(Unwrap(v), U32_MAX)
         IN  IF IsNone(p) THEN Err("InvalidValue")
             ELSE IF ty = "bool" THEN Res("Ok", BoolVal(Unwrap(p)))
             ELSE Res("Ok", IntVal(ty, NumeralToInt(Unwrap(p), 0)))

\* deserialize_str / deserialize_string / deserialize_identifier
deserialize_str(ck, cv) ==
    IF IsSome(ck) THEN Res("Ok", StrVal(Unwrap(ck)))
    ELSE IF IsSome(cv) THEN Res("Ok", StrVal(Unwrap(cv)))
    ELSE Err("NoKeyOrValue")

\* deserialize_unit
deserialize_unit(cv) ==
    IF IsNone(cv) THEN Err("NoValue")
    ELSE IF Len(Unwrap(cv)) # 0 THEN Err("InvalidValue")
    ELSE Res("Ok", UnitVal)

\* deserialize_any that tries the signed integer before the unsigned one.
deserialize_any_signed_first(ck, cv) ==
    IF IsSome(ck) THEN deserialize_str(ck, cv)
    ELSE IF IsSome(cv)
    THEN LET value == Unwrap(cv) IN
         IF IsSome(ParseBool(value))
         THEN Res("Ok", BoolVal(Unwrap(ParseBool(value))))
         ELSE IF IsSome(ParseSigned(value, I64_MAX, I64_MIN_MAGNITUDE))
         THEN Res("Ok", NumeralVal("i64",
                    Unwrap(ParseSigned(value, I64_MAX, I64_MIN_MAGNITUDE))))
         ELSE IF IsSome(ParseUnsigned(value, U64_MAX))
         THEN Res("Ok", NumeralVal("u64", Unwrap(ParseUnsigned(value, U64_MAX))))
         ELSE IF Len(value) = 0 THEN deserialize_unit(cv)
         ELSE deserialize_str(ck, cv)
    ELSE Err("NoValue")

\* deserialize_any
deserialize_any(ck, cv) ==
    IF IsSome(ck) THEN deserialize_str(ck, cv)
    ELSE IF IsSome(cv)
    THEN LET value == Unwrap(cv) IN
         IF IsSome(ParseBool(value))
         THEN Res("Ok", BoolVal(Unwrap(ParseBool(value))))
         ELSE IF IsSome(ParseUnsigned(value, U64_MAX))
         THEN Res("Ok", NumeralVal("u64", Unwrap(ParseUnsigned(value, U64_MAX))))
         ELSE IF IsSome(ParseSigned(value, I64_MAX, I64_MIN_MAGNITUDE))
         THEN Res("Ok", NumeralVal("i64",
                    Unwrap(ParseSigned(value, I64_MAX, I64_MIN_MAGNITUDE))))
         ELSE IF Len(value) = 0 THEN deserialize_unit(cv)
         ELSE deserialize_str(ck, cv)
    ELSE Err("NoValue")

\* deserialize_map that looks at current_key only.
deserialize_map_key_only(ck, cv) ==
    IF IsSome(ck) THEN Err("Nested") ELSE Res("EnterMap", UnitVal)

\* deserialize_map / deserialize_struct, up to the call of visit_map.
deserialize_map(ck, cv) ==
    IF IsSome(cv) \/ IsSome(ck) THEN Err("Nested") ELSE Res("EnterMap", UnitVal)

\* deserialize_option for Option<u8>: visit_none, or visit_some(self) and
\* with it deserialize_u8.
deserialize_option(cv) ==
    IF IsNone(cv) THEN Err("NoValue")
    ELSE IF Len(Unwrap(cv)) = 0 THEN Res("Ok", UnitVal)
    ELSE deserialize("u8", cv)

\* seed.deserialize(&mut deserializer) for a seed of target type ty, with
\* the buffers current_key = ck and current_value = cv.
Deserialize(ty, ck, cv) ==
    CASE ty \in {"bool", "u8", "u32"} -> deserialize(ty, cv)
      [] ty = "str" -> deserialize_str(ck, cv)
      [] ty = "any" -> deserialize_any(ck, cv)
      [] ty = "unit" -> deserialize_unit(cv)
      [] ty = "opt_u8" -> deserialize_option(cv)
      [] ty = "struct" -> deserialize_map(ck, cv)
      [] OTHER -> Err("Panic")   \* deserialize_tuple: unimplemented!()

\* str::split(","): the texts between the commas (at least one text).
RECURSIVE SplitComma(_, _)
SplitComma(s, cur) ==
    IF Len(s) = 0 THEN <<cur>>
    ELSE IF Head(s) = "," THEN <<cur>> \o SplitComma(Tail(s), <<>>)
    ELSE SplitComma(Tail(s), Append(cur, Head(s)))

\* BufRead::read_line: the bytes up to and including the first "\n", or all
\* of them when there is none.
RECURSIVE LineLength(_, _)
LineLength(s, i) ==
    IF i > Len(s) THEN Len(s)
    ELSE IF s[i] = "\n" THEN i
    ELSE LineLength(s, i + 1)

ReadLine(s) == SubSeq(s, 1, LineLength(s, 1))
AfterLine(s) == SubSeq(s, LineLength(s, 1) + 1, Len(s))

(***************************************************************************)
(* The records handed to the encoder                                       *)
(***************************************************************************)
StrAlphabet == {"a", ",", DEFAULT_SEPARATOR, DEFAULT_ESCAPE}
U8Elems == {IntVal("u8", 1), IntVal("u8", 23)}
StrElems == {StrVal(<<"a">>), StrVal(<<"b">>)}

RECURSIVE ListsUpTo(_, _)
ListsUpTo(S, n) ==
    IF n = 0 THEN {<<>>}
    ELSE LET shorter == ListsUpTo(S, n - 1)
         IN  shorter \cup {Append(l, e) : l \in shorter, e \in S}

ScalarValues ==
    {StrVal(s) : s \in TextsUpTo(StrAlphabet, MaxStrLen)}
    \cup {IntVal("u32", 10), IntVal("u32", 0), IntVal("u8", 255)}
    \cup {BoolVal(TRUE), BoolVal(FALSE), UnitVal}

ListValues ==
    {ListVal("seq_u8", l) : l \in ListsUpTo(U8Elems, MaxListLen)}
    \cup {ListVal("seq_str", l) : l \in ListsUpTo(StrElems, MaxListLen)}
    \cup {ListVal("tuple", l) : l \in ListsUpTo(U8Elems \cup StrElems, MaxListLen)}

FieldNames == << <<"i", "n", "t">>, <<"s">> >>

\* The String keys of the maps, in the order a BTreeMap iterates them.
MapKeys == << <<"a">>, <<"a", DEFAULT_SEPARATOR>>, <<"b">> >>

\* Records of zero, one or two fields, named in declared order.
Records ==
    LET Values == ScalarValues \cup ListValues IN
    {<<>>}
    \cup {<<Field(FieldNames[1], v)>> : v \in Values}
    \cup {<<Field(FieldNames[1], v), Field(FieldNames[2], w)>> :
            v \in Values, w \in Values}

\* Maps of zero, one or two entries with scalar values, keys increasing.
Maps ==
    LET Values == ScalarValues \cup U8Elems IN
    {<<>>}
    \cup {<<Field(MapKeys[i], v)>> : i \in DOMAIN MapKeys, v \in Values}
    \cup {<<Field(MapKeys[p[1]], v), Field(MapKeys[p[2]], w)>> :
            p \in {q \in (DOMAIN MapKeys) \X (DOMAIN MapKeys) : q[1] < q[2]},
            v \in Values, w \in Values}

\* Bare values: a scalar or a list handed to to_writer on its own.
BareValues == {<<Field(<<>>, v)>> : v \in ScalarValues \cup ListValues}

(***************************************************************************)
(* Specification SpecEnc: to_writer on every bounded record, map and value *)
(***************************************************************************)
SplitIdle == line = <<>> /\ splitRes = SplitNone
EncIdle ==
    /\ shape = "none"
    /\ record = <<>>
    /\ output = <<>>
    /\ encIdx = 0
    /\ keyDone = FALSE
SeqIdle == [ty |-> "none", values |-> <<>>, index |-> 0, acc |-> <<>>]
Call(op, ty, ck, cv, r) ==
    [op |-> op, ty |-> ty, key |-> ck, value |-> cv, tag |-> r.tag, val |-> r.val]
NoCall == Call("none", "none", None, None, Err("none"))
DeIdle ==
    /\ input = <<>>
    /\ current_key = None
    /\ current_value = None
    /\ pc = "idle"
    /\ mapDepth = 0
    /\ seqDe = SeqIdle
    /\ lastRes = NoCall
    /\ curField = <<>>
    /\ decoded = <<>>

\* Serializer::new over an empty sink, before value.serialize.
InitStruct ==
    /\ shape = "struct"
    /\ record \in Records
    /\ output = <<>>
    /\ encIdx = 0
    /\ keyDone = FALSE
    /\ SplitIdle
    /\ DeIdle

InitEnc ==
    /\ shape \in {"struct", "map", "value"}
    /\ record \in (CASE shape = "struct" -> Records
                     [] shape = "map" -> Maps
                     [] OTHER -> BareValues)
    /\ output = <<>>
    /\ encIdx = 0
    /\ keyDone = FALSE
    /\ SplitIdle
    /\ DeIdle

\* One SerializeStruct::serialize_field call, for the next declared field.
SerializeField ==
    /\ shape = "struct"
    /\ encIdx < Len(record)
    /\ output' = serialize_field(output, record[encIdx + 1].name,
                                 record[encIdx + 1].value)
    /\ encIdx' = encIdx + 1
    /\ UNCHANGED <<shape, record, keyDone, splitVars, deVars, driverVars>>

\* One SerializeMap::serialize_key call, for the key of the next entry.
SerializeKey ==
    /\ shape = "map"
    /\ encIdx < Len(record)
    /\ ~keyDone
    /\ output' = serialize_key(output, record[encIdx + 1].name)
    /\ keyDone' = TRUE
    /\ UNCHANGED <<shape, record, encIdx, splitVars, deVars, driverVars>>

\* One SerializeMap::serialize_value call, for the value of that entry.
SerializeMapValue ==
    /\ shape = "map"
    /\ encIdx < Len(record)
    /\ keyDone
    /\ output' = serialize_value(output, record[encIdx + 1].value)
    /\ keyDone' = FALSE
    /\ encIdx' = encIdx + 1
    /\ UNCHANGED <<shape, record, splitVars, deVars, driverVars>>

\* to_writer on a bare scalar or list: the value's own serialize call.
ToWriterValue ==
    /\ shape = "value"
    /\ encIdx = 0
    /\ output' = to_writer(output, record[1].value)
    /\ encIdx' = 1
    /\ UNCHANGED <<shape, record, keyDone, splitVars, deVars, driverVars>>

NextEnc == SerializeField \/ SerializeKey \/ SerializeMapValue \/ ToWriterValue

SpecEnc == InitEnc /\ [][NextEnc]_vars

(***************************************************************************)
(* Specification SpecSplit: parse_line applied to every bounded line       *)
(***************************************************************************)
SplitAlphabet == {"a", " ", DEFAULT_SEPARATOR, DEFAULT_ESCAPE}

InitSplit ==
    /\ line \in TextsUpTo(SplitAlphabet, MaxLineLen)
    /\ splitRes = SplitNone
    /\ EncIdle
    /\ DeIdle

ParseLine ==
    /\ splitRes.tag = "none"
    /\ splitRes' = parse_line(line)
    /\ UNCHANGED <<line, encVars, deVars, driverVars>>

NextSplit == ParseLine

SpecSplit == InitSplit /\ [][NextSplit]_vars

(***************************************************************************)
(* Deserializer: the driver-facing handlers (src/src/de.rs:236-354)        *)
(***************************************************************************)
KeyTypes == {"str", "any", "struct"}
ScalarTypes ==
    {"bool", "u8", "str", "any", "unit", "opt_u8", "struct", "tuple"}
SeqTypes == {"seq_u8", "seq_str", "seq_struct"}
ElemType(ty) ==
    CASE ty = "seq_u8" -> "u8"
      [] ty = "seq_str" -> "str"
      [] OTHER -> "struct"

\* Where the driver stands after a deserialize call that returned r, or that
\* panicked (unimplemented!()) and is unwinding.
AfterCall(r, ok) ==
    CASE r.tag = "Ok" -> ok
      [] r.tag = "EnterMap" -> "awaitKey"
      [] r.tag = "Panic" -> "panicked"
      [] OTHER -> "failed"
DepthAfter(r) == IF r.tag = "EnterMap" THEN mapDepth + 1 ELSE mapDepth

\* from_buf_read: T::deserialize(&mut deserializer) for a structured T, which
\* is deserialize_struct on the fresh Deserializer.
DeserializeRoot ==
    /\ pc = "start"
    /\ LET r == deserialize_map(current_key, current_value) IN
       /\ pc' = AfterCall(r, "done")
       /\ mapDepth' = DepthAfter(r)
       /\ lastRes' = Call("root", "struct", current_key, current_value, r)
    /\ UNCHANGED <<input, current_key, current_value, seqDe>>

\* next_value_seed that leaves current_value as it is.
ValueOnReturn_kept(cv) == cv

\* next_value_seed on its way out: self.current_value = None (de.rs:318),
\* whatever the buffer cv held and whatever seed.deserialize returned.
ValueOnReturn(cv) == None

\* next_key_seed after seed.deserialize: self.current_key = None (de.rs:309).
KeyOnReturn(ck) == None

\* MapAccess::next_key_seed with a seed of target type kty.
NextKey(kty) ==
    /\ pc = "awaitKey"
    /\ kty = "struct" => mapDepth < MaxDepth
    /\ LET buf == ReadLine(input)
           n == Len(buf)
           sp == parse_line(buf)
           k == Some(sp.key)
           v == Some(sp.value)
           r == Deserialize(kty, k, v)
       IN  /\ input' = AfterLine(input)
           /\ IF n = 0
              THEN /\ pc' = "eof"
                   /\ lastRes' = Call("read", kty, current_key, current_value,
                                      Err("End"))
                   /\ UNCHANGED <<current_key, current_value, mapDepth>>
              ELSE IF sp.tag # "Ok"
              THEN /\ pc' = "failed"
                   /\ lastRes' = Call("read", kty, current_key, current_value,
                                      Err(sp.tag))
                   /\ UNCHANGED <<current_key, current_value, mapDepth>>
              ELSE /\ current_key' = IF r.tag = "Panic"
                                      THEN k ELSE KeyOnReturn(k)
                   /\ current_value' = v
                   /\ pc' = AfterCall(r, "awaitValue")
                   /\ mapDepth' = DepthAfter(r)
                   /\ lastRes' = Call("key", kty, k, v, r)
    /\ UNCHANGED seqDe

\* MapAccess::next_value_seed with a seed of scalar or structured target
\* type ty: it is also what a driver calls for a value it is still owed
\* after next_key_seed returned None.  When seed.deserialize panics
\* (de.rs:317, a tuple target), the assignment of de.rs:318 is never reached
\* and the buffer stays as it was.
NextScalarValue(ty) ==
    /\ pc \in {"awaitValue", "eof"}
    /\ ty = "struct" => mapDepth < MaxDepth
    /\ LET r == Deserialize(ty, current_key, current_value) IN
       /\ current_value' = IF r.tag = "Panic"
                           THEN current_value
                           ELSE ValueOnReturn(current_value)
       /\ pc' = AfterCall(r, "awaitKey")
       /\ mapDepth' = DepthAfter(r)
       /\ lastRes' = Call("value", ty, current_key, current_value, r)
    /\ UNCHANGED <<input, current_key, seqDe>>

\* MapAccess::next_value_seed with a seed of list type ty, up to the call of
\* visit_seq (deserialize_seq and SeqDeserializer::new); when deserialize_seq
\* fails, next_value_seed returns the error.
NextSeqValue(ty) ==
    /\ pc \in {"awaitValue", "eof"}
    /\ IF IsNone(current_value)
       THEN /\ current_value' = ValueOnReturn(current_value)
            /\ pc' = "failed"
            /\ lastRes' = Call("value", ty, current_key, current_value,
                               Err("NoValue"))
            /\ UNCHANGED seqDe
       ELSE /\ seqDe' = [ty |-> ty,
                         values |-> SplitComma(Unwrap(current_value), <<>>),
                         index |-> 0, acc |-> <<>>]
            /\ pc' = "inSeq"
            /\ lastRes' = Call("value", ty, current_key, current_value,
                               Err("Seq"))
            /\ UNCHANGED current_value
    /\ UNCHANGED <<input, current_key, mapDepth>>

\* SeqAccess::next_element_seed.  When it returns None the visitor returns
\* the list and next_value_seed returns it; when the element fails,
\* next_value_seed returns the error.  Either way next_value_seed clears
\* current_value on its way out.
NextElement ==
    /\ pc = "inSeq"
    /\ ElemType(seqDe.ty) = "struct" /\ seqDe.index < Len(seqDe.values)
          => mapDepth < MaxDepth
    /\ IF seqDe.index >= Len(seqDe.values)
       THEN /\ current_value' = ValueOnReturn(current_value)
            /\ pc' = "awaitKey"
            /\ lastRes' = Call("value", seqDe.ty, current_key, current_value,
                               Res("Ok", ListVal(seqDe.ty, seqDe.acc)))
            /\ seqDe' = SeqIdle
            /\ UNCHANGED mapDepth
       ELSE LET cv == Some(seqDe.values[seqDe.index + 1])
                r == Deserialize(ElemType(seqDe.ty), current_key, cv)
            IN  /\ current_value' = IF r.tag \in {"Ok", "EnterMap", "Panic"}
                                    THEN cv ELSE ValueOnReturn(cv)
                /\ pc' = AfterCall(r, "inSeq")
                /\ mapDepth' = DepthAfter(r)
                /\ lastRes' = Call("elem", ElemType(seqDe.ty), current_key, cv, r)
                /\ seqDe' = [seqDe EXCEPT !.index = @ + 1,
                                          !.acc = IF r.tag = "Ok"
                                                  THEN Append(@, r.val) ELSE @]
    /\ UNCHANGED <<input, current_key>>

\* next_key_seed returned None and the driver asks for nothing more:
\* visit_map returns.
Finish ==
    /\ pc = "eof"
    /\ pc' = "done"
    /\ UNCHANGED <<input, current_key, current_value, mapDepth, seqDe, lastRes>>

(***************************************************************************)
(* Specification Spec: the decoder on bounded inputs, driven by any        *)
(* sequence of typed requests                                              *)
(***************************************************************************)
T(a, b) == a \o b
ValueTexts ==
    { <<>>, <<"t", "r", "u", "e">>, <<"f", "a", "l", "s", "e">>,
      <<"1">>, <<"-", "1">>, <<"+", "1">>, <<"-", "0">>, <<"2", "5", "6">>,
      <<"a", "b", "c">>, <<"1", ",", "2">>, <<"-">>,
      U64_MAX, T(SubSeq(U64_MAX, 1, 19), <<"6">>),
      T(<<"-">>, I64_MIN_MAGNITUDE), T(<<"-">>, T(SubSeq(I64_MAX, 1, 18), <<"9">>)) }

\* The lines of an input: `a=<value>`, and lines parse_line rejects.
InputLines ==
    {T(<<"a", DEFAULT_SEPARATOR>>, v) : v \in ValueTexts}
    \cup { <<"a">>, <<DEFAULT_SEPARATOR, "a">> }

RECURSIVE Documents(_)
Documents(n) ==
    IF n = 0 THEN {<<>>}
    ELSE LET shorter == Documents(n - 1)
         IN  shorter \cup {T(d, T(l, <<"\n">>)) : d \in shorter, l \in InputLines}

Init ==
    /\ input \in Documents(MaxLines)
    /\ current_key = None
    /\ current_value = None
    /\ pc = "start"
    /\ mapDepth = 0
    /\ seqDe = SeqIdle
    /\ lastRes = NoCall
    /\ curField = <<>>
    /\ decoded = <<>>
    /\ SplitIdle
    /\ EncIdle

Untouched == UNCHANGED <<splitVars, encVars, driverVars>>

Root == DeserializeRoot /\ Untouched
ReadKey == \E kty \in KeyTypes : NextKey(kty) /\ Untouched
DecodeValue == \E ty \in ScalarTypes : NextScalarValue(ty) /\ Untouched
DecodeList == \E ty \in SeqTypes : NextSeqValue(ty) /\ Untouched
DecodeElement == NextElement /\ Untouched
End == Finish /\ Untouched

Next == Root \/ ReadKey \/ DecodeValue \/ DecodeList \/ DecodeElement \/ End

Spec == Init /\ [][Next]_vars

(***************************************************************************)
(* Specification SpecRT: to_writer on a record, then from_str of the bytes *)
(* written into the same record shape.  The driver is the record shape's   *)
(* visitor: it reads a key as a field identifier, asks for the value with  *)
(* the type the shape declares for that field, and stores it.              *)
(***************************************************************************)
HasField(name) == \E i \in DOMAIN record : record[i].name = name
FieldOf(name) == record[CHOOSE i \in DOMAIN record : record[i].name = name]

\* The declared type of the field, "any" for a name the shape does not have.
TargetType(name) == IF HasField(name) THEN FieldOf(name).value.kind ELSE "any"

InitRT == InitStruct

RTSerializeField == SerializeField

\* from_str: Deserializer::new over the bytes written.
RTFromStr ==
    /\ pc = "idle"
    /\ encIdx = Len(record)
    /\ input' = output
    /\ current_key' = None
    /\ current_value' = None
    /\ pc' = "start"
    /\ UNCHANGED <<mapDepth, seqDe, lastRes, splitVars, encVars, driverVars>>

RTRoot == DeserializeRoot /\ Untouched

RTReadKey ==
    /\ NextKey("str")
    /\ curField' = IF lastRes'.tag = "Ok" THEN lastRes'.val.s ELSE curField
    /\ UNCHANGED <<splitVars, encVars, decoded>>

Store ==
    decoded' = IF lastRes'.op = "value" /\ lastRes'.tag = "Ok" /\ HasField(curField)
               THEN Append(decoded, Field(curField, lastRes'.val))
               ELSE decoded

RTDecodeValue ==
    /\ pc = "awaitValue"
    /\ IF TargetType(curField) \in SeqTypes
       THEN NextSeqValue(TargetType(curField))
       ELSE NextScalarValue(TargetType(curField))
    /\ Store
    /\ UNCHANGED <<splitVars, encVars, curField>>

RTDecodeElement ==
    /\ NextElement
    /\ Store
    /\ UNCHANGED <<splitVars, encVars, curField>>

RTEnd == Finish /\ Untouched

NextRT ==
    \/ RTSerializeField
    \/ RTFromStr
    \/ RTRoot
    \/ RTReadKey
    \/ RTDecodeValue
    \/ RTDecodeElement
    \/ RTEnd

SpecRT == InitRT /\ [][NextRT]_vars

(***************************************************************************)
(* Properties                                                              *)
(***************************************************************************)
Finished == pc \in {"done", "failed", "panicked"}
TRUE_TEXT == <<"t", "r", "u", "e">>
FALSE_TEXT == <<"f", "a", "l", "s", "e">>
INT_NAME == <<"i", "n", "t">>

RECURSIVE CharsIn(_, _)
CharsIn(s, A) == Len(s) = 0 \/ (Head(s) \in A /\ CharsIn(Tail(s), A))

\* C1: a string of ordinary, separator and escape characters, encoded as the
\* value of a record's string field and decoded into the same record shape,
\* comes back equal to the original.
C1_EscapedStringRoundTrip ==
    (/\ Len(record) = 1
     /\ record[1].value.kind = "str"
     /\ CharsIn(record[1].value.s, {"a", DEFAULT_SEPARATOR, DEFAULT_ESCAPE})
     /\ Finished)
    => (pc = "done" /\ decoded = record)

\* The text of a value contains neither the separator nor the escape.
PlainValue(v) ==
    /\ CharsIn(v.s, {"a", "b", ","})
    /\ \A i \in DOMAIN v.elems : CharsIn(v.elems[i].s, {"a", "b", ","})
FlatPlainRecord ==
    \A i \in DOMAIN record :
        /\ record[i].value.kind \in
              {"u8", "u32", "bool", "str", "unit", "seq_u8", "seq_str"}
        /\ PlainValue(record[i].value)

\* C2: a flat record of scalars and lists of scalars (of any length) whose
\* text has no separator or escape character decodes, after encoding, to a
\* record equal to it: same fields, same values, same list elements in order.
C2_FlatRecordRoundTrip ==
    (FlatPlainRecord /\ Finished) => (pc = "done" /\ decoded = record)

\* The scan of section 4.1: `escaped` is set by an unescaped escape character
\* and cleared by the character after it; the scan stops at the first
\* unescaped separator.  sep is its position (0: none), acc the number of
\* characters accumulated into the key before it.
RECURSIVE GrammarScan(_, _, _, _)
GrammarScan(l, i, escaped, acc) ==
    IF i > Len(l) THEN [sep |-> 0, acc |-> acc]
    ELSE IF ~escaped /\ l[i] = DEFAULT_ESCAPE
         THEN GrammarScan(l, i + 1, TRUE, acc)
    ELSE IF ~escaped /\ l[i] = DEFAULT_SEPARATOR
         THEN [sep |-> i, acc |-> acc]
    ELSE GrammarScan(l, i + 1, FALSE, acc + 1)

\* C3: split fails with NoValue when the scan ends without meeting an
\* unescaped separator, and with NoKey when an unescaped separator is met
\* before any character was accumulated into the key.
C3_SplitFailures ==
    splitRes.tag # "none" =>
        LET g == GrammarScan(line, 1, FALSE, 0) IN
        /\ g.sep = 0 => splitRes.tag = "NoValue"
        /\ (g.sep > 0 /\ g.acc = 0) => splitRes.tag = "NoKey"

\* The value texts of generic decoding, told apart without the parsers.
UnsignedNumeral(v) == Len(v) \in 1..19 /\ AllDigits(v)
NegativeNumeral(v) ==
    Len(v) \in 2..19 /\ Head(v) = "-" /\ AllDigits(Tail(v))
Wordlike(v) ==
    Len(v) > 0 /\ v \notin {TRUE_TEXT, FALSE_TEXT} /\ ~IsDigit(v[Len(v)])
GenericCall ==
    lastRes.ty = "any" /\ IsNone(lastRes.key) /\ IsSome(lastRes.value)

\* C4: generic decoding of a buffered value (no key buffered) chooses the
\* first matching domain in the order boolean, unsigned 64-bit, signed
\* 64-bit, unit (empty text only), string.
C4_InferencePrecedence ==
    GenericCall =>
        LET v == Unwrap(lastRes.value)
            k == lastRes.val.kind
        IN  /\ lastRes.tag = "Ok"
            /\ v = TRUE_TEXT => lastRes.val = BoolVal(TRUE)
            /\ v = FALSE_TEXT => lastRes.val = BoolVal(FALSE)
            /\ UnsignedNumeral(v) => (k = "u64" /\ lastRes.val.s = StripZeros(v))
            /\ NegativeNumeral(v) => k = "i64"
            /\ v = <<>> => k = "unit"
            /\ Wordlike(v) => lastRes.val = StrVal(v)
            /\ k = "bool" => v \in {TRUE_TEXT, FALSE_TEXT}
            /\ k = "i64" => IsNone(ParseUnsigned(v, U64_MAX))
            /\ k = "unit" => v = <<>>
            /\ k = "str" => (/\ v # <<>>
                             /\ v \notin {TRUE_TEXT, FALSE_TEXT}
                             /\ ~UnsignedNumeral(v)
                             /\ ~NegativeNumeral(v))
C4_Witness ==
    /\ GenericCall
    /\ lastRes.op = "value"
    /\ lastRes.value = Some(<<"1">>)
    /\ lastRes.val = NumeralVal("u64", <<"1">>)

\* C5: map/struct decoding entered with a key or a value buffered fails with
\* the nested-structures error and enters no map; it is entered
\* successfully only with both buffers empty.
C5_NestingRejected ==
    (lastRes.ty = "struct" /\ lastRes.op \in {"root", "key", "value", "elem"}) =>
        /\ (IsSome(lastRes.key) \/ IsSome(lastRes.value))
              => (lastRes.tag = "Nested" /\ pc = "failed")
        /\ lastRes.tag = "EnterMap"
              => (IsNone(lastRes.key) /\ IsNone(lastRes.value))
        /\ lastRes.tag \in {"Nested", "EnterMap"}
C5_Witness ==
    /\ lastRes.ty = "struct"
    /\ lastRes.op = "elem"
    /\ IsNone(lastRes.key)
    /\ IsSome(lastRes.value)
    /\ lastRes.tag = "Nested"
    /\ pc = "failed"
    /\ mapDepth = 1

\* C6: a value requested for a field when the input is exhausted (nothing
\* is buffered) fails with NoValue, whatever the field's type: no value is
\* produced and no other error kind is reported.
C6_ExhaustedInputIsNoValue ==
    (lastRes.op = "value" /\ IsNone(lastRes.value))
        => (lastRes.tag = "NoValue" /\ pc = "failed")

ScalarRecord ==
    /\ shape = "struct"
    /\ \A i \in DOMAIN record :
          record[i].value.kind \in {"u8", "u32", "bool", "str", "unit"}

\* The lines of the first k fields: name, separator, value text, "\n".
RECURSIVE FieldLines(_, _)
FieldLines(rec, k) ==
    IF k = 0 THEN <<>>
    ELSE FieldLines(rec, k - 1) \o rec[k].name \o <<"=">>
         \o SerializeScalar(rec[k].value) \o <<"\n">>

\* C7: encoding a flat record of scalar fields writes exactly, per field in
\* declared order, the name, the separator, the value text and "\n", and
\* nothing else; the record {int: 10} gives "int=10\n".
C7_RecordLines ==
    ScalarRecord =>
        /\ output = FieldLines(record, encIdx)
        /\ (encIdx = 1 /\ record[1] = Field(INT_NAME, IntVal("u32", 10)))
              => output = <<"i", "n", "t", "=", "1", "0", "\n">>
C7_Witness ==
    /\ shape = "struct"
    /\ encIdx = 2
    /\ record[1] = Field(INT_NAME, IntVal("u32", 10))
    /\ record[2] = Field(<<"s">>, BoolVal(TRUE))
    /\ output = <<"i", "n", "t", "=", "1", "0", "\n",
                  "s", "=", "t", "r", "u", "e", "\n">>

\* C8: split puts the boundary at the first separator that is not escaped:
\* the key is the text before it, the value the text after it, both trimmed,
\* also when escape characters occur before it.
C8_SplitBoundary ==
    splitRes.tag # "none" =>
        LET g == GrammarScan(line, 1, FALSE, 0)
            boundaryAt(p) ==
                /\ splitRes.key = Trim(SubSeq(line, 1, p - 1))
                /\ splitRes.value = Trim(SubSeq(line, p + 1, Len(line)))
        IN  /\ (g.sep > 0 /\ g.acc > 0)
                  => (splitRes.tag = "Ok" /\ boundaryAt(g.sep))
            /\ splitRes.tag = "Ok" => (g.sep > 0 /\ boundaryAt(g.sep))

\* The element texts with one comma between successive ones.
RECURSIVE JoinComma(_)
JoinComma(elems) ==
    IF Len(elems) = 0 THEN <<>>
    ELSE IF Len(elems) = 1 THEN SerializeScalar(elems[1])
    ELSE SerializeScalar(elems[1]) \o <<",">> \o JoinComma(Tail(elems))

\* C9: a list value of n elements is written as its n element texts in
\* order with exactly one comma between successive elements, for sequences
\* as well as tuples.
C9_CommaJoinedList ==
    /\ (/\ shape = "struct"
        /\ encIdx = 1
        /\ record[1].value.kind \in {"seq_u8", "seq_str", "tuple"})
          => output = record[1].name \o <<"=">>
                      \o JoinComma(record[1].value.elems) \o <<"\n">>
    /\ (/\ shape = "value"
        /\ encIdx = 1
        /\ record[1].value.kind \in {"seq_u8", "seq_str", "tuple"})
          => output = JoinComma(record[1].value.elems)

\* Every escape character doubled, every separator prefixed by one escape
\* character, every other character kept.
RECURSIVE Charwise(_)
Charwise(s) ==
    IF Len(s) = 0 THEN <<>>
    ELSE (CASE Head(s) = DEFAULT_ESCAPE -> <<DEFAULT_ESCAPE, DEFAULT_ESCAPE>>
            [] Head(s) = DEFAULT_SEPARATOR -> <<DEFAULT_ESCAPE, DEFAULT_SEPARATOR>>
            [] OTHER -> <<Head(s)>>)
         \o Charwise(Tail(s))

\* C10: the escape of a string is the string with every E replaced by EE
\* and every S by ES, every other character (commas included) unchanged; an
\* E put in front of an S is not doubled.
C10_EscapeCharwise ==
    /\ (shape = "struct" /\ encIdx >= 1 /\ record[1].value.kind = "str")
          => SubSeq(output, 1, Len(record[1].name) + 2
                               + Len(Charwise(record[1].value.s)))
             = record[1].name \o <<"=">> \o Charwise(record[1].value.s)
               \o <<"\n">>
    /\ (shape = "value" /\ encIdx = 1 /\ record[1].value.kind = "str")
          => output = Charwise(record[1].value.s)
    /\ (shape = "map" /\ (encIdx >= 1 \/ keyDone))
          => SubSeq(output, 1, Len(Charwise(record[1].name)) + 1)
             = Charwise(record[1].name) \o <<"=">>
C10_Witness ==
    /\ shape = "struct"
    /\ encIdx = 1
    /\ record[1].value = StrVal(<<DEFAULT_ESCAPE, DEFAULT_SEPARATOR>>)
    /\ output = <<"i", "n", "t", "=", DEFAULT_ESCAPE, DEFAULT_ESCAPE,
                  DEFAULT_ESCAPE, DEFAULT_SEPARATOR, "\n">>

\* C11: whenever split succeeds, the key it returns (trimmed) is non-empty;
\* no line, also one with only whitespace before the separator, is accepted
\* with an empty key.
C11_KeyNonEmpty ==
    splitRes.tag = "Ok" => Len(splitRes.key) > 0

\* A value-decoding step (next_value_seed) has returned, with a value or
\* with an error, for a scalar or for a list: it is not inside visit_seq and
\* it did not panic, which returns nothing to the driver.
ValueStepReturned ==
    lastRes.op \in {"value", "elem"} /\ pc \notin {"inSeq", "panicked"}

\* C12: the loaded pair is consumed key first, then value, then dropped: the
\* key buffer is empty once field-name resolution has returned; after every
\* value-decoding step (successful or failed, scalar or list whose elements
\* overwrote the value buffer) both buffers are empty; a line is only read
\* with both buffers empty, and a value is only decoded after its key.
C12_PairConsumedThenDropped ==
    /\ IsNone(current_key)
    /\ ValueStepReturned => IsNone(current_value)
    /\ pc \in {"awaitKey", "eof", "done"} => IsNone(current_value)
    /\ pc = "awaitValue" =>
          (/\ lastRes.op = "key"
           /\ lastRes.tag = "Ok"
           /\ current_value = lastRes.value
           /\ IsSome(current_value))
    /\ pc = "inSeq" => lastRes.op \in {"value", "elem"}
C12_Witness ==
    /\ pc = "awaitKey"
    /\ lastRes.op = "value"
    /\ lastRes.ty = "seq_u8"
    /\ lastRes.tag = "Ok"
    /\ Len(lastRes.val.elems) = 2
    /\ lastRes.value = Some(<<"2">>)
    /\ IsNone(current_key)
    /\ IsNone(current_value)
    /\ Len(input) > 0

====
